---- MODULE Spec2Model ----
(***************************************************************************)
(* Open-addressing containers of hheinzer/cds: the string-keyed Hmap       *)
(* (src/hmap.h) and the byte-block Set (src/unnamed/part_001).  The        *)
(* chained Dict (src/unnamed/part_000) follows at the end of the module.   *)
(*                                                                         *)
(* A container is the C struct as a record.  Its slot array `item` is a    *)
(* function 0..capacity-1 -> slot, or NoItems while the pointer is null.   *)
(* A data pointer is a record [own, id, val]: `own` says who allocated the *)
(* block ("caller": a buffer of the caller, "alloc": a block malloc'ed by  *)
(* x__*_item_create, "null": the null pointer), `id` is its address and    *)
(* `val` the bytes it holds.  Keys are small positive integers standing    *)
(* for distinct C strings; 0 is the null key pointer.                      *)
(*                                                                         *)
(* load_factor is the pair <<num, den>> of the double num/den; only        *)
(* factors that are exact in binary are used, so that the double           *)
(* arithmetic of the code equals the integer arithmetic written here.      *)
(***************************************************************************)
EXTENDS Integers, Sequences, FiniteSets, TLC

\* Bounds of the model.
MaxCapacity == 5
MaxHint == 1
MaxPost == 1

Keys == 1..3
Vals == 1..2
LoadFactors == {<<3, 4>>, <<1, 2>>, <<1, 4>>}

NULL == 0
NoItems == <<>>
NullPtr == [own |-> "null", id |-> <<>>, val |-> 0]
CallerBuf(v) == [own |-> "caller", id |-> <<>>, val |-> v]
AllocBuf(id, v) == [own |-> "alloc", id |-> id, val |-> v]

\* malloc: an address not in use.  heap = [used, by]: the addresses in use and
\* the container allocating.  The address is named after the place it is
\* allocated for (container, capacity, slot), with a serial number that keeps
\* it distinct from every address in use.
RECURSIVE FreshFrom(_, _, _, _)
FreshFrom(heap, capacity, i, n) ==
    IF <<heap.by, capacity, i, n>> \in heap.used
    THEN FreshFrom(heap, capacity, i, n + 1)
    ELSE <<heap.by, capacity, i, n>>
Fresh(heap, capacity, i) == FreshFrom(heap, capacity, i, 0)

\* The hash callbacks handed to create.  user_hash: keys 1 and 2 have the same
\* full hash, key 3 a different one that shares residues with it for some
\* capacities.  const_hash: every key has the same full hash.
user_hash(k) == IF k = 3 THEN 4 ELSE 1
const_hash(k) == 7
HashFns == {"user_hash", "const_hash"}
CallHash(f, k) ==
    CASE f = "user_hash" -> user_hash(k)
      [] f = "const_hash" -> const_hash(k)

\* x / load_factor, truncated to long
DivLoad(x, lf) == (x * lf[2]) \div lf[1]
\* x > capacity * load_factor
OverLoad(x, capacity, lf) == x * lf[2] > capacity * lf[1]

Max(a, b) == IF a > b THEN a ELSE b

(***************************************************************************)
(* Hmap                                                                    *)
(***************************************************************************)
HmapItemZero == [key |-> NULL, data |-> NullPtr, hash |-> 0]

\* (Hmap){0}
HmapZero ==
    [size |-> 0, capacity |-> 0, data_size |-> 0, max_dist |-> 0,
     load_factor |-> <<0, 1>>, key_hash |-> "null", data_copy |-> "null",
     data_free |-> "null", item |-> NoItems]

hmap_create_full(capacity, data_size, load_factor, key_hash, data_copy, data_free) ==
    [HmapZero EXCEPT !.capacity = DivLoad(capacity, load_factor) + 1,
                     !.data_size = data_size,
                     !.load_factor = load_factor,
                     !.key_hash = key_hash,
                     !.data_copy = data_copy,
                     !.data_free = data_free]

x__hmap_create_items(hmap) ==
    [hmap EXCEPT !.item = [i \in 0..(hmap.capacity - 1) |-> HmapItemZero]]

\* the placement loop of the rehash: first empty slot at or after _i
RECURSIVE x__hmap_resize_probe(_, _, _, _)
x__hmap_resize_probe(_item, _capacity, _i, _dist) ==
    IF _item[_i].key # NULL
    THEN x__hmap_resize_probe(_item, _capacity, (_i + 1) % _capacity, _dist + 1)
    ELSE <<_i, _dist>>

\* the for loop of the rehash over the old slots n, n+1, ...;
\* acc = [item, max_dist] of the new array so far
RECURSIVE x__hmap_resize_loop(_, _, _, _)
x__hmap_resize_loop(hmap, _capacity, n, acc) ==
    IF n >= hmap.capacity THEN acc
    ELSE LET item == hmap.item[n] IN
         IF item.key = NULL THEN x__hmap_resize_loop(hmap, _capacity, n + 1, acc)
         ELSE LET p == x__hmap_resize_probe(acc.item, _capacity, item.hash % _capacity, 0)
              IN x__hmap_resize_loop(hmap, _capacity, n + 1,
                     [item |-> [acc.item EXCEPT ![p[1]] = item],
                      max_dist |-> Max(acc.max_dist, p[2])])

\* mutant: the table grows by one slot instead of by the load factor
HmapNewCapacity_plus_one(hmap) == hmap.capacity + 1

HmapNewCapacity(hmap) == DivLoad(hmap.capacity, hmap.load_factor) + 1

\* mutant: the rehash does not track the displacements of the new array
x__hmap_resize_items_no_dist(hmap) ==
    LET _capacity == HmapNewCapacity(hmap)
        acc == x__hmap_resize_loop(hmap, _capacity, 0,
                   [item |-> [i \in 0..(_capacity - 1) |-> HmapItemZero], max_dist |-> 0])
    IN [hmap EXCEPT !.item = acc.item, !.capacity = _capacity, !.max_dist = 0]

\* mutant: the rehash never lowers max_dist
x__hmap_resize_items_keep_max(hmap) ==
    LET _capacity == HmapNewCapacity(hmap)
        acc == x__hmap_resize_loop(hmap, _capacity, 0,
                   [item |-> [i \in 0..(_capacity - 1) |-> HmapItemZero], max_dist |-> 0])
    IN [hmap EXCEPT !.item = acc.item, !.capacity = _capacity,
                    !.max_dist = Max(hmap.max_dist, acc.max_dist)]

x__hmap_resize_items(hmap) ==
    LET _capacity == HmapNewCapacity(hmap)
        acc == x__hmap_resize_loop(hmap, _capacity, 0,
                   [item |-> [i \in 0..(_capacity - 1) |-> HmapItemZero], max_dist |-> 0])
    IN [hmap EXCEPT !.item = acc.item, !.capacity = _capacity, !.max_dist = acc.max_dist]

x__hmap_item_create(hmap, i, key, data, hash, heap) ==
    [key |-> key,
     data |-> IF data # NullPtr /\ hmap.data_copy # "null"
              THEN AllocBuf(Fresh(heap, hmap.capacity, i), data.val)
              ELSE data,
     hash |-> hash]

\* mutant: the probe loop of insert passes every occupied slot, the slot of
\* the key as well
RECURSIVE hmap_insert_probe_empty(_, _, _, _, _)
hmap_insert_probe_empty(hmap, key, hash, i, dist) ==
    LET item == hmap.item[i] IN
    IF item.key # NULL
    THEN hmap_insert_probe_empty(hmap, key, hash, (i + 1) % hmap.capacity, dist + 1)
    ELSE <<i, dist>>

\* the probe loop of insert: first slot at or after i that is empty or holds key
RECURSIVE hmap_insert_probe(_, _, _, _, _)
hmap_insert_probe(hmap, key, hash, i, dist) ==
    LET item == hmap.item[i] IN
    IF item.key # NULL /\ (item.hash # hash \/ item.key # key)
    THEN hmap_insert_probe(hmap, key, hash, (i + 1) % hmap.capacity, dist + 1)
    ELSE <<i, dist>>

\* mutant: insert does not record the displacement of the new entry
HmapNewMaxDist_stale(hmap, dist) == hmap.max_dist

\* if (dist > hmap->max_dist) hmap->max_dist = dist
HmapNewMaxDist(hmap, dist) == Max(hmap.max_dist, dist)

\* mutant: insert on a present key never replaces the stored pointer
\* if (!keep) item->data = data: the pointer the slot of a present key holds
\* after insert
\* mutant: the growth test reads size instead of size + 1
HmapMustGrow_late(hmap) == OverLoad(hmap.size, hmap.capacity, hmap.load_factor)

\* mutant: the growth test ignores the load factor and fires on a full table only
HmapMustGrow_full(hmap) == hmap.size + 1 > hmap.capacity

\* if (hmap->size + 1 > hmap->capacity * hmap->load_factor)
HmapMustGrow(hmap) == OverLoad(hmap.size + 1, hmap.capacity, hmap.load_factor)

\* insert after the probe loop ended at slot i with distance dist, on the
\* table h2 that was grown or not (grow)
hmap_insert_at(h2, grow, key, data, keep, heap, hash, i, dist) ==
    IF h2.item[i].key = NULL
    THEN LET new == x__hmap_item_create(h2, i, key, data, hash, heap)
         IN [h |-> [h2 EXCEPT !.item[i] = new,
                              !.max_dist = HmapNewMaxDist(h2, dist),
                              !.size = @ + 1],
             ret |-> NullPtr,
             heap |-> IF new.data.own = "alloc"
                      THEN [heap EXCEPT !.used = @ \cup {new.data.id}] ELSE heap,
             grew |-> grow, abort |-> FALSE]
    ELSE [h |-> IF keep THEN h2 ELSE [h2 EXCEPT !.item[i].data = data],
          ret |-> h2.item[i].data, heap |-> heap, grew |-> grow, abort |-> FALSE]

\* insert from the probe loop on: p = <<i, dist>> is where the loop ends
hmap_insert_probed(h2, grow, key, data, keep, heap, hash, p) ==
    hmap_insert_at(h2, grow, key, data, keep, heap, hash, p[1], p[2])

\* insert from the hash of the key on
hmap_insert_hashed(h2, grow, key, data, keep, heap, hash) ==
    hmap_insert_probed(h2, grow, key, data, keep, heap, hash,
                       hmap_insert_probe(h2, key, hash, hash % h2.capacity, 0))

\* insert from the growth test on, the slot array h1.item being allocated
hmap_insert_grown(h1, grow, key, data, keep, heap) ==
    hmap_insert_hashed(IF grow THEN x__hmap_resize_items(h1) ELSE h1, grow,
                       key, data, keep, heap, CallHash(h1.key_hash, key))

hmap_insert_created(h1, key, data, keep, heap) ==
    hmap_insert_grown(h1, HmapMustGrow(h1), key, data, keep, heap)

\* Result of an insert: the container, the returned pointer, the heap, whether
\* the table grew, and abort = the call does not return (on a zeroed struct
\* the new capacity is NaN converted to long and key_hash is a null function
\* pointer).
hmap_insert(hmap, key, data, keep, heap) ==
    IF hmap.key_hash = "null"
    THEN [h |-> hmap, ret |-> NullPtr, heap |-> heap, grew |-> FALSE, abort |-> TRUE]
    ELSE hmap_insert_created(IF hmap.item = NoItems THEN x__hmap_create_items(hmap) ELSE hmap,
                             key, data, keep, heap)

\* mutant: the scan stops at the first empty slot
RECURSIVE hmap_scan_until_empty(_, _, _, _, _)
hmap_scan_until_empty(hmap, key, hash, i, dist) ==
    IF dist > hmap.max_dist THEN -1
    ELSE LET item == hmap.item[i] IN
         IF item.key = NULL THEN -1
         ELSE IF item.hash = hash /\ item.key = key THEN i
         ELSE hmap_scan_until_empty(hmap, key, hash, (i + 1) % hmap.capacity, dist + 1)

\* mutant: the scan compares the cached hashes only, not the keys
RECURSIVE hmap_scan_hash_only(_, _, _, _, _)
hmap_scan_hash_only(hmap, key, hash, i, dist) ==
    IF dist > hmap.max_dist THEN -1
    ELSE LET item == hmap.item[i] IN
         IF item.key # NULL /\ item.hash = hash THEN i
         ELSE hmap_scan_hash_only(hmap, key, hash, (i + 1) % hmap.capacity, dist + 1)

\* the bounded scan of find and remove: index of the slot holding key, or -1
RECURSIVE hmap_scan(_, _, _, _, _)
hmap_scan(hmap, key, hash, i, dist) ==
    IF dist > hmap.max_dist THEN -1
    ELSE LET item == hmap.item[i] IN
         IF item.key # NULL /\ item.hash = hash /\ item.key = key THEN i
         ELSE hmap_scan(hmap, key, hash, (i + 1) % hmap.capacity, dist + 1)

hmap_locate(hmap, key) ==
    IF hmap.size = 0 THEN -1
    ELSE LET hash == CallHash(hmap.key_hash, key)
         IN hmap_scan(hmap, key, hash, hash % hmap.capacity, 0)

hmap_find(hmap, key) ==
    LET i == hmap_locate(hmap, key)
    IN IF i = -1 THEN NullPtr ELSE hmap.item[i].data

\* mutant: remove resets the displacement bound
hmap_remove_reset(hmap, key) ==
    LET i == hmap_locate(hmap, key)
    IN IF i = -1 THEN [h |-> hmap, ret |-> NullPtr]
       ELSE [h |-> [hmap EXCEPT !.item[i] = HmapItemZero, !.size = @ - 1, !.max_dist = 0],
             ret |-> hmap.item[i].data]

hmap_remove(hmap, key) ==
    LET i == hmap_locate(hmap, key)
    IN IF i = -1 THEN [h |-> hmap, ret |-> NullPtr]
       ELSE [h |-> [hmap EXCEPT !.item[i] = HmapItemZero, !.size = @ - 1],
             ret |-> hmap.item[i].data]

\* mutant: clear walks the first size slots instead of all capacity slots
HmapFreeList_size(hmap) ==
    IF hmap.item = NoItems \/ hmap.data_free = "null" THEN <<>>
    ELSE LET occ == SelectSeq([n \in 1..hmap.size |-> hmap.item[n - 1]],
                              LAMBDA it : it.key # NULL)
         IN [n \in 1..Len(occ) |-> occ[n].data]

\* the pointers clear hands to data_free, in slot order
HmapFreeList(hmap) ==
    IF hmap.item = NoItems \/ hmap.data_free = "null" THEN <<>>
    ELSE LET occ == SelectSeq([n \in 1..hmap.capacity |-> hmap.item[n - 1]],
                              LAMBDA it : it.key # NULL)
         IN [n \in 1..Len(occ) |-> occ[n].data]

\* mutant: clear zeroes the struct without the test for an unallocated array
hmap_clear_unguarded(hmap) == HmapZero

hmap_clear(hmap) == IF hmap.item = NoItems THEN hmap ELSE HmapZero

\* the for loop of copy over the source slots n, n+1, ...; acc = [h, heap]
RECURSIVE hmap_copy_loop(_, _, _)
hmap_copy_loop(hmap, n, acc) ==
    IF n >= hmap.capacity THEN acc
    ELSE LET item == hmap.item[n] IN
         IF item.key = NULL THEN hmap_copy_loop(hmap, n + 1, acc)
         ELSE LET r == hmap_insert(acc.h, item.key, item.data, FALSE, acc.heap)
              IN hmap_copy_loop(hmap, n + 1, [h |-> r.h, heap |-> r.heap])

\* abort: assert(0 < load_factor) of create fails on a zeroed struct
hmap_copy(hmap, heap) ==
    IF hmap.load_factor[1] = 0
    THEN [h |-> HmapZero, heap |-> heap, abort |-> TRUE]
    ELSE LET copy == hmap_create_full(hmap.size, hmap.data_size, hmap.load_factor,
                                      hmap.key_hash, hmap.data_copy, hmap.data_free)
         IN IF hmap.size = 0 THEN [h |-> copy, heap |-> heap, abort |-> FALSE]
            ELSE LET acc == hmap_copy_loop(hmap, 0, [h |-> copy, heap |-> heap])
                 IN [h |-> acc.h, heap |-> acc.heap, abort |-> FALSE]

(***************************************************************************)
(* Set                                                                     *)
(***************************************************************************)
SetItemZero == [data |-> NullPtr, hash |-> 0]

\* (Set){0}
SetZero ==
    [size |-> 0, capacity |-> 0, data_size |-> 0, max_dist |-> 0,
     load_factor |-> <<0, 1>>, data_hash |-> "null", data_copy |-> "null",
     data_free |-> "null", item |-> NoItems]

set_create_full(capacity, data_size, load_factor, data_hash, data_copy, data_free) ==
    [SetZero EXCEPT !.capacity = DivLoad(capacity, load_factor) + 1,
                    !.data_size = data_size,
                    !.load_factor = load_factor,
                    !.data_hash = data_hash,
                    !.data_copy = data_copy,
                    !.data_free = data_free]

x__set_create_items(set) ==
    [set EXCEPT !.item = [i \in 0..(set.capacity - 1) |-> SetItemZero]]

RECURSIVE x__set_resize_probe(_, _, _, _)
x__set_resize_probe(_item, _capacity, _i, _dist) ==
    IF _item[_i].data # NullPtr
    THEN x__set_resize_probe(_item, _capacity, (_i + 1) % _capacity, _dist + 1)
    ELSE <<_i, _dist>>

RECURSIVE x__set_resize_loop(_, _, _, _)
x__set_resize_loop(set, _capacity, n, acc) ==
    IF n >= set.capacity THEN acc
    ELSE LET item == set.item[n] IN
         IF item.data = NullPtr THEN x__set_resize_loop(set, _capacity, n + 1, acc)
         ELSE LET p == x__set_resize_probe(acc.item, _capacity, item.hash % _capacity, 0)
              IN x__set_resize_loop(set, _capacity, n + 1,
                     [item |-> [acc.item EXCEPT ![p[1]] = item],
                      max_dist |-> Max(acc.max_dist, p[2])])

SetNewCapacity(set) == DivLoad(set.capacity, set.load_factor) + 1

x__set_resize_items(set) ==
    LET _capacity == SetNewCapacity(set)
        acc == x__set_resize_loop(set, _capacity, 0,
                   [item |-> [i \in 0..(_capacity - 1) |-> SetItemZero], max_dist |-> 0])
    IN [set EXCEPT !.item = acc.item, !.capacity = _capacity, !.max_dist = acc.max_dist]

x__set_item_create(set, i, data, hash, heap) ==
    [data |-> IF set.data_copy # "null"
              THEN AllocBuf(Fresh(heap, set.capacity, i), data.val)
              ELSE data,
     hash |-> hash]

\* memcmp(item->data, data, data_size) = 0 is equality of the bytes held
RECURSIVE set_insert_probe(_, _, _, _, _)
set_insert_probe(set, data, hash, i, dist) ==
    LET item == set.item[i] IN
    IF item.data # NullPtr /\ (item.hash # hash \/ item.data.val # data.val)
    THEN set_insert_probe(set, data, hash, (i + 1) % set.capacity, dist + 1)
    ELSE <<i, dist>>

SetNewMaxDist(set, dist) == Max(set.max_dist, dist)

SetMustGrow(set) == OverLoad(set.size + 1, set.capacity, set.load_factor)

set_insert_at(h2, grow, data, keep, heap, hash, i, dist) ==
    IF h2.item[i].data = NullPtr
    THEN LET new == x__set_item_create(h2, i, data, hash, heap)
         IN [h |-> [h2 EXCEPT !.item[i] = new,
                              !.max_dist = SetNewMaxDist(h2, dist),
                              !.size = @ + 1],
             ret |-> NullPtr,
             heap |-> IF new.data.own = "alloc"
                      THEN [heap EXCEPT !.used = @ \cup {new.data.id}] ELSE heap,
             grew |-> grow, abort |-> FALSE]
    ELSE [h |-> IF keep THEN h2 ELSE [h2 EXCEPT !.item[i].data = data],
          ret |-> h2.item[i].data, heap |-> heap, grew |-> grow, abort |-> FALSE]

set_insert_probed(h2, grow, data, keep, heap, hash, p) ==
    set_insert_at(h2, grow, data, keep, heap, hash, p[1], p[2])

set_insert_hashed(h2, grow, data, keep, heap, hash) ==
    set_insert_probed(h2, grow, data, keep, heap, hash,
                      set_insert_probe(h2, data, hash, hash % h2.capacity, 0))

set_insert_grown(h1, grow, data, keep, heap) ==
    set_insert_hashed(IF grow THEN x__set_resize_items(h1) ELSE h1, grow,
                      data, keep, heap, CallHash(h1.data_hash, data.val))

set_insert_created(h1, data, keep, heap) ==
    set_insert_grown(h1, SetMustGrow(h1), data, keep, heap)

set_insert(set, data, keep, heap) ==
    IF set.data_hash = "null"
    THEN [h |-> set, ret |-> NullPtr, heap |-> heap, grew |-> FALSE, abort |-> TRUE]
    ELSE set_insert_created(IF set.item = NoItems THEN x__set_create_items(set) ELSE set,
                            data, keep, heap)

RECURSIVE set_scan(_, _, _, _, _)
set_scan(set, data, hash, i, dist) ==
    IF dist > set.max_dist THEN -1
    ELSE LET item == set.item[i] IN
         IF item.data # NullPtr /\ item.hash = hash /\ item.data.val = data.val THEN i
         ELSE set_scan(set, data, hash, (i + 1) % set.capacity, dist + 1)

set_locate(set, data) ==
    IF set.size = 0 THEN -1
    ELSE LET hash == CallHash(set.data_hash, data.val)
         IN set_scan(set, data, hash, hash % set.capacity, 0)

set_find(set, data) ==
    LET i == set_locate(set, data)
    IN IF i = -1 THEN NullPtr ELSE set.item[i].data

set_remove(set, data) ==
    LET i == set_locate(set, data)
    IN IF i = -1 THEN [h |-> set, ret |-> NullPtr]
       ELSE [h |-> [set EXCEPT !.item[i] = SetItemZero, !.size = @ - 1],
             ret |-> set.item[i].data]

SetFreeList(set) ==
    IF set.item = NoItems \/ set.data_free = "null" THEN <<>>
    ELSE LET occ == SelectSeq([n \in 1..set.capacity |-> set.item[n - 1]],
                              LAMBDA it : it.data # NullPtr)
         IN [n \in 1..Len(occ) |-> occ[n].data]

set_clear(set) == IF set.item = NoItems THEN set ELSE SetZero

RECURSIVE set_copy_loop(_, _, _)
set_copy_loop(set, n, acc) ==
    IF n >= set.capacity THEN acc
    ELSE LET item == set.item[n] IN
         IF item.data = NullPtr THEN set_copy_loop(set, n + 1, acc)
         ELSE LET r == set_insert(acc.h, item.data, FALSE, acc.heap)
              IN set_copy_loop(set, n + 1, [h |-> r.h, heap |-> r.heap])

set_copy(set, heap) ==
    IF set.load_factor[1] = 0
    THEN [h |-> SetZero, heap |-> heap, abort |-> TRUE]
    ELSE LET copy == set_create_full(set.size, set.data_size, set.load_factor,
                                     set.data_hash, set.data_copy, set.data_free)
         IN IF set.size = 0 THEN [h |-> copy, heap |-> heap, abort |-> FALSE]
            ELSE LET acc == set_copy_loop(set, 0, [h |-> copy, heap |-> heap])
                 IN [h |-> acc.h, heap |-> acc.heap, abort |-> FALSE]

(***************************************************************************)
(* The program: one container `src` made by create, at most one `copy` of  *)
(* it made by copy, and a caller that applies insert, remove, find, clear  *)
(* and copy to them.  `freed` holds the pointers handed to data_free,      *)
(* `post` counts the calls made since the copy was taken, and `ghost`      *)
(* records the keys inserted so far while every call was an insert of a    *)
(* new key.  A call whose behaviour is undefined (it reads or frees a      *)
(* block that was freed) ends the run with status "undefined".             *)
(***************************************************************************)
VARIABLES kind, src, copy, has_copy, freed, status, post, ghost

vars == <<kind, src, copy, has_copy, freed, status, post, ghost>>

Objs == {"src", "copy"}
Obj(o) == IF o = "src" THEN src ELSE copy

Zero == IF kind = "hmap" THEN HmapZero ELSE SetZero
Occupied(it) == IF kind = "hmap" THEN it.key # NULL ELSE it.data # NullPtr
KeyOf(it) == IF kind = "hmap" THEN it.key ELSE it.data.val
HashFn(h) == IF kind = "hmap" THEN h.key_hash ELSE h.data_hash
Slots(h) == IF h.item = NoItems THEN {} ELSE 0..(h.capacity - 1)
Live(h) == {i \in Slots(h) : Occupied(h.item[i])}
Ptrs(h) == {h.item[i].data : i \in Live(h)}

\* the addresses malloc may not hand out: blocks held by a slot and blocks
\* already passed to data_free
Used == {p.id : p \in {q \in Ptrs(src) \cup Ptrs(copy) \cup freed : q.own = "alloc"}}
Heap(o) == [used |-> Used, by |-> o]

\* the values a read of *p can yield: the bytes of the block while it is
\* allocated (0 stands for the null pointer, an absent entry); a block that
\* was handed to data_free can yield any value, if the read returns at all
Deref(p) == IF p \in freed THEN Int ELSE {p.val}
\* every read of *p yields v
Yields(p, v) == p \notin freed /\ Deref(p) = {v}

\* the data arguments a caller passes with key k: for the set the block is the key
DataArgs(k) ==
    IF kind = "hmap" THEN {CallerBuf(v) : v \in Vals} ELSE {CallerBuf(k)}

DoInsert(h, k, d, keep, heap) ==
    IF kind = "hmap" THEN hmap_insert(h, k, d, keep, heap) ELSE set_insert(h, d, keep, heap)
DoRemove(h, k) ==
    IF kind = "hmap" THEN hmap_remove(h, k) ELSE set_remove(h, CallerBuf(k))
DoFind(h, k) ==
    IF kind = "hmap" THEN hmap_find(h, k) ELSE set_find(h, CallerBuf(k))
DoClear(h) == IF kind = "hmap" THEN hmap_clear(h) ELSE set_clear(h)
DoCopy(h, heap) == IF kind = "hmap" THEN hmap_copy(h, heap) ELSE set_copy(h, heap)
DoResize(h) == IF kind = "hmap" THEN x__hmap_resize_items(h) ELSE x__set_resize_items(h)
FreeList(h) == IF kind = "hmap" THEN HmapFreeList(h) ELSE SetFreeList(h)
SeqRange(q) == {q[n] : n \in 1..Len(q)}

\* A call reads or frees a block that was already freed: undefined behaviour.
\* The set reads the stored blocks in every probe (memcmp); the hmap reads
\* them in copy (data_copy), and clear hands them to data_free again.
Dangling(h) == \E p \in Ptrs(h) : p \in freed
ReadsData(h, op) ==
    \/ kind = "set"
    \/ op = "copy" /\ h.data_copy # "null"
    \/ op = "clear" /\ h.data_free # "null"
\* clear hands one block to data_free twice: two live entries hold it
DoubleFree(h) ==
    LET fl == FreeList(h)
    IN \E m, n \in 1..Len(fl) : m # n /\ fl[m] = fl[n] /\ fl[m] # NullPtr
\* the call reads the block d its caller passes: the set hashes it (insert
\* always, remove and find unless size is 0), the hmap hands it to data_copy
\* when insert makes a new entry
ReadsArg(h, op, k, d) ==
    IF kind = "set"
    THEN \/ op = "insert" /\ h.data_hash # "null"
         \/ op \in {"remove", "find"} /\ h.size # 0
    ELSE /\ op = "insert"
         /\ h.data_copy # "null"
         /\ DoInsert(h, k, d, TRUE, Heap("src")).h.size # h.size
Undefined(h, op, k, d) ==
    \/ Dangling(h) /\ ReadsData(h, op)
    \/ op = "clear" /\ DoubleFree(h)
    \/ d \in freed /\ ReadsArg(h, op, k, d)
\* the block the caller passes to remove and find: the set's key, none for the hmap
KeyArg(k) == IF kind = "set" THEN CallerBuf(k) ELSE NullPtr

GhostZero == [uniq |-> FALSE, ins |-> [k \in Keys |-> 0]]

Configs == {<<"memcpy", "free">>, <<"null", "null">>}

Init ==
    /\ kind \in {"hmap", "set"}
    /\ \E capacity \in 0..MaxHint, lf \in LoadFactors, hf \in HashFns, cb \in Configs :
          src = IF kind = "hmap"
                THEN hmap_create_full(capacity, 4, lf, hf, cb[1], cb[2])
                ELSE set_create_full(capacity, 4, lf, hf, cb[1], cb[2])
    /\ copy = Zero
    /\ has_copy = FALSE
    /\ freed = {}
    /\ status = "running"
    /\ post = 0
    /\ ghost = [uniq |-> TRUE, ins |-> [k \in Keys |-> 0]]

\* a call on container o can be made
Callable(o) ==
    /\ status = "running"
    /\ o = "copy" => has_copy
    /\ has_copy => post < MaxPost

SetObj(o, h) ==
    /\ src' = IF o = "src" THEN h ELSE src
    /\ copy' = IF o = "copy" THEN h ELSE copy
    /\ post' = IF has_copy THEN post + 1 ELSE post

\* the call does not return: the process is aborted, or its behaviour undefined
Stop(how) ==
    /\ status' = how
    /\ UNCHANGED <<kind, src, copy, has_copy, freed, post, ghost>>

Insert(o, k, d, keep) ==
    /\ Callable(o)
    /\ IF Undefined(Obj(o), "insert", k, d) THEN Stop("undefined")
       ELSE LET r == DoInsert(Obj(o), k, d, keep, Heap(o)) IN
            IF r.abort THEN Stop("aborted")
            ELSE /\ r.h.capacity <= MaxCapacity
                 /\ SetObj(o, r.h)
                 /\ ghost' = IF o = "copy" THEN ghost
                             ELSE IF ghost.uniq /\ ghost.ins[k] = 0 /\ d # NullPtr
                             THEN [ghost EXCEPT !.ins[k] = d.val]
                             ELSE GhostZero
                 /\ UNCHANGED <<kind, has_copy, freed, status>>

Remove(o, k) ==
    /\ Callable(o)
    /\ IF Undefined(Obj(o), "remove", k, KeyArg(k)) THEN Stop("undefined")
       ELSE LET r == DoRemove(Obj(o), k) IN
            /\ SetObj(o, r.h)
            /\ ghost' = IF o = "copy" THEN ghost ELSE GhostZero
            /\ UNCHANGED <<kind, has_copy, freed, status>>

Find(o, k) ==
    /\ Callable(o)
    /\ IF Undefined(Obj(o), "find", k, KeyArg(k)) THEN Stop("undefined")
       ELSE UNCHANGED vars

Clear(o) ==
    /\ Callable(o)
    /\ IF Undefined(Obj(o), "clear", NULL, NullPtr) THEN Stop("undefined")
       ELSE LET fl == FreeList(Obj(o)) IN
            /\ SetObj(o, DoClear(Obj(o)))
            /\ freed' = freed \cup (SeqRange(fl) \ {NullPtr})
            /\ ghost' = IF o = "copy" THEN ghost ELSE GhostZero
            /\ UNCHANGED <<kind, has_copy, status>>

Copy ==
    /\ status = "running"
    /\ ~has_copy
    /\ IF Undefined(src, "copy", NULL, NullPtr) THEN Stop("undefined")
       ELSE LET r == DoCopy(src, Heap("copy")) IN
            IF r.abort THEN Stop("aborted")
            ELSE /\ r.h.capacity <= MaxCapacity
                 /\ copy' = r.h
                 /\ has_copy' = TRUE
                 /\ UNCHANGED <<kind, src, freed, status, post, ghost>>

\* the calls on one container
Next ==
    \/ \E k \in Keys, keep \in BOOLEAN : \E d \in DataArgs(k) : Insert("src", k, d, keep)
    \/ \E k \in Keys : Remove("src", k)
    \/ \E k \in Keys : Find("src", k)
    \/ Clear("src")

Spec == Init /\ [][Next]_vars

\* the calls on a container and its copy
NextCopy ==
    \/ \E o \in Objs, k \in Keys, keep \in BOOLEAN : \E d \in DataArgs(k) : Insert(o, k, d, keep)
    \/ \E o \in Objs, k \in Keys : Remove(o, k)
    \/ \E o \in Objs, k \in Keys : Find(o, k)
    \/ \E o \in Objs : Clear(o)
    \/ Copy

SpecCopy == Init /\ [][NextCopy]_vars

(***************************************************************************)
(* Properties                                                              *)
(***************************************************************************)
\* the keys of the live entries of h
KeysIn(h) == {KeyOf(h.item[i]) : i \in Live(h)}
\* the probe distance of the entry in slot i from its ideal slot
Dist(h, i) == ((i - (h.item[i].hash % h.capacity)) + h.capacity) % h.capacity
Inserted == {k \in Keys : ghost.ins[k] # 0}
SameConfig(g, h) ==
    /\ g.load_factor = h.load_factor
    /\ HashFn(g) = HashFn(h)
    /\ g.data_copy = h.data_copy
    /\ g.data_free = h.data_free

\* C1: after inserts of pairwise distinct keys only (any hint, any growths, no
\* remove), size is the number of keys inserted and find(k) yields a value
\* equal to the one inserted with k.
RoundTrip ==
    ghost.uniq =>
        /\ src.size = Cardinality(Inserted)
        /\ \A k \in Inserted : Yields(DoFind(src, k), ghost.ins[k])

\* three distinct keys were inserted, the table grew on the way and one entry
\* is displaced from its ideal slot
RoundTripWitness ==
    /\ ghost.uniq
    /\ Inserted = Keys
    /\ src.capacity = 5
    /\ src.max_dist >= 1
    /\ \E k \in Keys : ghost.ins[k] = 2

\* C2: no two occupied slots hold equal keys.
UniqueKeys ==
    \A i, j \in Live(src) : i # j => KeyOf(src.item[i]) # KeyOf(src.item[j])

\* C3: a remove that returns a stored value takes size down by one and leaves
\* the key absent: find and a second remove return the null pointer.
RemoveEffective ==
    [][\A k \in Keys :
          (Remove("src", k) /\ DoRemove(src, k).ret # NullPtr) =>
              /\ src'.size = src.size - 1
              /\ DoFind(src', k) = NullPtr
              /\ DoRemove(src', k).ret = NullPtr]_vars

\* C4: every live entry lies within max_dist steps of its ideal slot, which is
\* one of the max_dist + 1 slots find and remove scan, and its cached hash is
\* the hash of its key.
DisplacementBound ==
    \A i \in Live(src) :
        LET it == src.item[i]
            hash == CallHash(HashFn(src), KeyOf(it))
        IN /\ it.hash = hash
           /\ Dist(src, i) <= src.max_dist
           /\ i \in {((hash % src.capacity) + d) % src.capacity : d \in 0..src.max_dist}

\* an entry displaced by two slots, behind a slot emptied by remove
DisplacementWitness ==
    \E i \in Live(src) :
        /\ Dist(src, i) = 2
        /\ src.max_dist = 2
        /\ ~Occupied(src.item[(i + src.capacity - 1) % src.capacity])

\* C5: when an insert returns, size <= capacity * load_factor, and the insert
\* grew the table at most once.
GrowthInvariant ==
    [][\A k \in Keys, keep \in BOOLEAN : \A d \in DataArgs(k) :
          (Insert("src", k, d, keep) /\ status' = "running") =>
              /\ ~OverLoad(src'.size, src'.capacity, src'.load_factor)
              /\ src'.capacity \in
                    {src.capacity, DivLoad(src.capacity, src.load_factor) + 1}]_vars

\* the table is filled to its load factor after growing from the hint
GrowthWitness ==
    /\ src.capacity = 5
    /\ src.size = 3
    /\ src.load_factor = <<3, 4>>
    /\ OverLoad(src.size + 1, src.capacity, src.load_factor)

\* C6: no call leaves capacity smaller than it was.
CapacityMonotone == [][src'.capacity >= src.capacity]_vars

\* C7: clear of an allocated container sets size to 0 and releases the slot
\* array, keeps capacity, load factor and callbacks, and leaves a container on
\* which an insert and a find of the key succeed.
ClearKeepsConfig ==
    [][(Clear("src") /\ src.item # NoItems) =>
          /\ src'.size = 0
          /\ src'.item = NoItems
          /\ src'.capacity = src.capacity
          /\ SameConfig(src', src)
          /\ \A k \in Keys : \A d \in DataArgs(k) :
                LET r == DoInsert(src', k, d, FALSE, Heap("src")')
                    got == DoFind(r.h, k)
                IN ~r.abort /\ got \notin freed' /\ got.val = d.val]_vars

\* what a caller sees of container h: its fields and slots, and the values
\* its stored pointers yield
View(h) == <<h, [i \in Live(h) |-> Deref(h.item[i].data)]>>

\* C8: with a deep-copy callback, a call on the copy leaves the source and the
\* values it stores unchanged, and a call on the source leaves the copy and
\* the values it stores unchanged: no stored block of the other container is
\* freed, and its fields, slots and stored values read as before.
CopyIndependence ==
    [][(has_copy /\ has_copy' /\ (src.data_copy # "null" \/ copy.data_copy # "null")) =>
          /\ copy' # copy => ~Dangling(src)' /\ View(src)' = View(src)
          /\ src' # src => ~Dangling(copy)' /\ View(copy)' = View(copy)]_vars

\* the first slot of the source, in slot order, that holds key k
FirstSlot(h, k) ==
    CHOOSE i \in Live(h) : KeyOf(h.item[i]) = k /\ \A j \in Live(h) : KeyOf(h.item[j]) = k => i <= j

\* C9: copy keeps the entry it placed first for a key: the copy's entry for k
\* stems from the first source slot holding k (a deep copy of that block with
\* a copy callback, that very pointer without), never from a later one.
CopyKeepsFirst ==
    (has_copy /\ post = 0 /\ status = "running") =>
        \A k \in KeysIn(src) : \A j \in Live(copy) :
            KeyOf(copy.item[j]) = k =>
                LET first == src.item[FirstSlot(src, k)].data
                    got == copy.item[j].data
                IN IF src.data_copy # "null"
                   THEN got.val = first.val /\ got \notin Ptrs(src)
                   ELSE got = first

\* C10: the copy has the load factor, callbacks and size of the source, and
\* find yields equal values on both for every key.
CopyEquivalent ==
    (has_copy /\ post = 0 /\ status = "running") =>
        /\ SameConfig(copy, src)
        /\ copy.size = src.size
        /\ \A k \in Keys : Deref(DoFind(copy, k)) = Deref(DoFind(src, k))

\* C11: a previous value returned by insert (the key was present, keep set or
\* not) or by remove is held by no slot of the container afterwards.  Stated
\* for containers with a copy callback, whose stored values are blocks of
\* their own that the caller of insert or remove is to free.
ReturnedNotHeld ==
    [][src.data_copy # "null" =>
          /\ \A k \in Keys, keep \in BOOLEAN : \A d \in DataArgs(k) :
                (Insert("src", k, d, keep) /\ status' = "running"
                    /\ DoInsert(src, k, d, keep, Heap("src")).ret.own = "alloc") =>
                    DoInsert(src, k, d, keep, Heap("src")).ret \notin Ptrs(src')
          /\ \A k \in Keys :
                (Remove("src", k) /\ DoRemove(src, k).ret.own = "alloc") =>
                    DoRemove(src, k).ret \notin Ptrs(src')]_vars

\* C12: data_free is called by clear only, once for the stored value of each
\* live entry and for nothing else; insert (new key or overwrite, growth
\* included), find, copy and remove hand nothing to it.
FreeOnlyByClear ==
    [][/\ freed' # freed => \E o \in Objs : Clear(o)
       /\ \A o \in Objs :
             (Clear(o) /\ status' = "running") =>
                 LET h == Obj(o)
                     fl == FreeList(h)
                 IN IF h.data_free = "null" THEN fl = <<>> /\ freed' = freed
                    ELSE /\ Len(fl) = Cardinality(Live(h))
                         /\ \A i \in Live(h) :
                               Cardinality({n \in 1..Len(fl) : fl[n] = h.item[i].data})
                                   = Cardinality({j \in Live(h) : h.item[j].data = h.item[i].data})
                         /\ freed' = freed \cup Ptrs(h)]_vars

\* a copy was taken and a clear then handed the values of two live entries to
\* data_free
FreeOnlyByClearWitness ==
    /\ has_copy
    /\ post = 1
    /\ status = "running"
    /\ Cardinality(freed) >= 2
    /\ src = Zero

\* C13: when a key with no live entry is inserted and then inserted again
\* with no call in between, size is one more than before the first insert,
\* the second insert returns the pointer the first one stored (it reads the
\* first value), and find then yields the first value if keep was set on
\* the second insert and the second value if not.
InsertTwice ==
    [][\A k \in Keys, keep1 \in BOOLEAN : \A d1 \in DataArgs(k) :
          (Insert("src", k, d1, keep1) /\ status' = "running" /\ k \notin KeysIn(src)) =>
              \A keep2 \in BOOLEAN : \A d2 \in DataArgs(k) :
                  LET r == DoInsert(src', k, d2, keep2, Heap("src")')
                  IN /\ ~r.abort
                     /\ r.h.size = src.size + 1
                     /\ r.ret = DoFind(src', k)
                     /\ r.ret.val = d1.val
                     /\ DoFind(r.h, k).val = IF keep2 THEN d1.val ELSE d2.val]_vars

\* the key of the only entry was inserted a second time with keep not set and
\* another value: the slot holds the second value
InsertTwiceWitness ==
    /\ kind = "hmap"
    /\ status = "running"
    /\ src.data_copy # "null"
    /\ src.size = 1
    /\ \E i \in Live(src) : src.item[i].data = CallerBuf(2)

\* C14: for a key with no live entry, in a container never allocated, emptied
\* or cleared as well, find returns the null pointer and remove returns the
\* null pointer and leaves size, capacity, max_dist and every slot as they are.
AbsentUntouched ==
    \A k \in Keys \ KeysIn(src) :
        /\ DoFind(src, k) = NullPtr
        /\ DoRemove(src, k) = [h |-> src, ret |-> NullPtr]

\* key 2 is absent while two keys of the same hash are live, one of them
\* displaced: the scan for key 2 passes both
AbsentWitness ==
    /\ kind = "hmap"
    /\ HashFn(src) = "const_hash"
    /\ KeysIn(src) = {1, 3}
    /\ src.max_dist >= 1

\* C15: a clear of a container whose slot array is not allocated, fresh from
\* create or cleared before, changes no field of it and hands nothing to
\* data_free; size stays 0.
ClearUnallocated ==
    /\ [](\A o \in Objs :
             Obj(o).item = NoItems =>
                 /\ DoClear(Obj(o)) = Obj(o)
                 /\ FreeList(Obj(o)) = <<>>
                 /\ Obj(o).size = 0)
    /\ [][\A o \in Objs :
             (Clear(o) /\ status' = "running" /\ Obj(o).item = NoItems) =>
                 /\ src' = src
                 /\ copy' = copy
                 /\ freed' = freed]_vars

\* a container that held entries was cleared: a further clear finds the slot
\* array unallocated
ClearUnallocatedWitness ==
    /\ status = "running"
    /\ src = Zero
    /\ freed # {}

\* C16: in every state reached by inserts, removes and growths, find(k)
\* returns the stored pointer of a live entry of k, never the null pointer,
\* for every key k that has an occupied slot, also when slots between the
\* ideal slot of k and its entry were emptied by removes.
LiveIsFound ==
    \A k \in KeysIn(src) :
        /\ DoFind(src, k) # NullPtr
        /\ \E i \in Live(src) : KeyOf(src.item[i]) = k /\ DoFind(src, k) = src.item[i].data

\* a live entry lies behind its ideal slot and that ideal slot was emptied
LiveIsFoundWitness ==
    /\ status = "running"
    /\ \E i \in Live(src) :
          /\ Dist(src, i) >= 1
          /\ ~Occupied(src.item[src.item[i].hash % src.capacity])

\* C17: create sets capacity to floor(hint / load_factor) + 1; an insert grows
\* the table exactly when size + 1 > capacity * load_factor holds on entry,
\* whether or not the key is present, to floor(capacity / load_factor) + 1,
\* which is more than before; no other call makes capacity larger.
GrowthSchedule ==
    /\ [](src.item = NoItems /\ src # Zero =>
             \E hint \in 0..MaxHint :
                 src.capacity = ((hint * src.load_factor[2]) \div src.load_factor[1]) + 1)
    /\ [][status' = "running" =>
             /\ \A k \in Keys, keep \in BOOLEAN : \A d \in DataArgs(k) :
                   Insert("src", k, d, keep) =>
                       LET num == src.load_factor[1]
                           den == src.load_factor[2]
                       IN IF (src.size + 1) * den > src.capacity * num
                          THEN /\ src'.capacity = ((src.capacity * den) \div num) + 1
                               /\ src'.capacity > src.capacity
                          ELSE src'.capacity = src.capacity
             /\ src'.capacity > src.capacity =>
                   \E k \in Keys, keep \in BOOLEAN : \E d \in DataArgs(k) :
                       Insert("src", k, d, keep)]_vars

\* a table created with 1 slot grew three times, the last time on the insert
\* of a key that was present or followed by a remove: 5 slots, two entries
GrowthScheduleWitness ==
    /\ status = "running"
    /\ src.load_factor = <<3, 4>>
    /\ src.capacity = 5
    /\ src.size = 2
    /\ \A i, j \in Live(src) : i # j => KeyOf(src.item[i]) # KeyOf(src.item[j])

\* the largest displacement of a live entry of h, 0 without live entries
MaxDisplacement(h) ==
    IF Live(h) = {} THEN 0
    ELSE CHOOSE m \in {Dist(h, i) : i \in Live(h)} : \A i \in Live(h) : Dist(h, i) <= m

\* C18: the rehash of a growth keeps size and the multiset of live slot
\* contents (key, value pointer, cached hash); every entry ends up with no
\* empty slot between cached hash % new capacity and its slot; and max_dist
\* afterwards equals the largest displacement of a live entry, which may be
\* less than before.
RehashExact ==
    src.item # NoItems =>
        LET g == DoResize(src)
            ents == {src.item[i] : i \in Live(src)} \cup {g.item[i] : i \in Live(g)}
        IN /\ g.size = src.size
           /\ g.capacity = ((src.capacity * src.load_factor[2]) \div src.load_factor[1]) + 1
           /\ \A it \in ents :
                 Cardinality({i \in Live(src) : src.item[i] = it})
                     = Cardinality({i \in Live(g) : g.item[i] = it})
           /\ \A i \in Live(g) : \A d \in 0..(Dist(g, i) - 1) :
                 Occupied(g.item[((g.item[i].hash % g.capacity) + d) % g.capacity])
           /\ g.max_dist = MaxDisplacement(g)
           /\ SameConfig(g, src)

\* the next insert grows the table, and the rehash of its two or more entries
\* ends with a smaller max_dist than the table has now
RehashExactWitness ==
    /\ status = "running"
    /\ src.item # NoItems
    /\ src.size >= 2
    /\ (src.size + 1) * src.load_factor[2] > src.capacity * src.load_factor[1]
    /\ DoResize(src).max_dist < src.max_dist

\* C19: a remove that returns a stored value zeroes the one slot it matched
\* and takes size down by one; capacity, max_dist, the load factor, the
\* callbacks and every other slot stay as they are, and nothing is handed to
\* data_free.  A find changes nothing.
RemoveFrame ==
    [][status' = "running" =>
          /\ \A k \in Keys :
                (Remove("src", k) /\ DoRemove(src, k).ret # NullPtr) =>
                    /\ \E i \in Live(src) :
                          /\ KeyOf(src.item[i]) = k
                          /\ src'.item[i] = (IF kind = "hmap" THEN HmapItemZero ELSE SetItemZero)
                          /\ \A j \in Slots(src) \ {i} : src'.item[j] = src.item[j]
                    /\ src'.size = src.size - 1
                    /\ src'.capacity = src.capacity
                    /\ src'.max_dist = src.max_dist
                    /\ src'.data_size = src.data_size
                    /\ SameConfig(src', src)
                    /\ UNCHANGED <<copy, freed>>
          /\ \A k \in Keys :
                Find("src", k) => UNCHANGED <<src, copy, freed>>]_vars

\* every entry was removed from a table that had a displaced entry: the slots
\* are empty and max_dist is what it was
RemoveFrameWitness ==
    /\ status = "running"
    /\ src.item # NoItems
    /\ src.size = 0
    /\ src.max_dist >= 1

\* C20: with a copy callback, every value pointer in an occupied slot is a
\* block the container allocated, never the buffer of the caller, after any
\* inserts, overwrites with keep not set included; so every pointer clear
\* hands to data_free is such a block.
StoredValuesOwned ==
    /\ src.data_copy # "null" => \A p \in Ptrs(src) : p.own = "alloc"
    /\ \A p \in freed : p.own = "alloc"

\* the table the probe loop of insert runs on: the slot array allocated if it
\* was not, and rehashed if the growth test fires
DoCreateItems(h) ==
    IF kind = "hmap" THEN x__hmap_create_items(h) ELSE x__set_create_items(h)
DoMustGrow(h) == IF kind = "hmap" THEN HmapMustGrow(h) ELSE SetMustGrow(h)
Probed(h) ==
    LET h1 == IF h.item = NoItems THEN DoCreateItems(h) ELSE h
    IN IF DoMustGrow(h1) THEN DoResize(h1) ELSE h1
\* the slot and the number of steps of the probe loop of insert for key k
DoProbe(h, k) ==
    LET hash == CallHash(HashFn(h), k)
    IN IF kind = "hmap"
       THEN hmap_insert_probe(h, k, hash, hash % h.capacity, 0)
       ELSE set_insert_probe(h, CallerBuf(k), hash, hash % h.capacity, 0)

\* C21: in every state reached from create by insert, remove and growth, size
\* is the number of occupied slots and, once the slot array is allocated,
\* less than capacity; so the table insert probes (after allocation and
\* growth) and the new array of a rehash have an empty slot, and the probe
\* loop of insert ends in fewer than capacity steps at a slot that is empty
\* or holds the key.
ProbeTerminates ==
    HashFn(src) # "null" =>
        /\ src.size = Cardinality(Live(src))
        /\ src.item # NoItems => src.size < src.capacity
        /\ src.item # NoItems => Cardinality(Live(src)) < DoResize(src).capacity
        /\ LET h2 == Probed(src)
           IN /\ Cardinality(Live(h2)) < h2.capacity
              /\ \A k \in Keys :
                    LET p == DoProbe(h2, k)
                    IN /\ p[2] < h2.capacity
                       /\ p[1] = ((CallHash(HashFn(h2), k) % h2.capacity) + p[2]) % h2.capacity
                       /\ ~Occupied(h2.item[p[1]]) \/ KeyOf(h2.item[p[1]]) = k

\* two entries of equal hash in a table that the next insert does not grow:
\* the probe of that insert for a third key passes both of them
ProbeTerminatesWitness ==
    /\ status = "running"
    /\ src.item # NoItems
    /\ src.capacity = 5
    /\ src.size = 2
    /\ HashFn(src) = "const_hash"
    /\ ~DoMustGrow(src)
    /\ \E k \in Keys \ KeysIn(src) : DoProbe(src, k)[2] = 2

(***************************************************************************)
(* Dict (src/unnamed/part_000): the chained map.  A bucket is the sequence *)
(* of the items of its chain, the head item that lies in the bucket array  *)
(* first; the empty sequence is a head whose key is null.  `bucket` is a   *)
(* function 0..capacity-1 -> chain, or NoItems while the pointer is null.  *)
(* The container lives in `src` with kind = "dict".                        *)
(***************************************************************************)
MaxDictCapacity == 5
MaxDictHint == 2

\* a hash callback with pairwise different full hashes 1, 4, 7 that fall in
\* the same bucket for capacity 3
spread_hash(k) == (3 * k) - 2
DictHashFns == HashFns \cup {"spread_hash"}
DictCallHash(f, k) == IF f = "spread_hash" THEN spread_hash(k) ELSE CallHash(f, k)

DictItemZero == [key |-> NULL, data |-> NullPtr, hash |-> 0]

dict_create(capacity, load_factor, key_hash, data_size, data_copy, data_free) ==
    [size |-> 0, capacity |-> capacity, load_factor |-> load_factor, bucket |-> NoItems,
     key_hash |-> key_hash, data_size |-> data_size, data_copy |-> data_copy,
     data_free |-> data_free]

x__dict_create_buckets(dict) ==
    [dict EXCEPT !.bucket = [b \in 0..(dict.capacity - 1) |-> <<>>]]

\* the probe loop of insert, remove, find and resize over one chain:
\* while (item && item->key && item->hash != hash && strcmp(item->key, key)).
\* The index of the item it stops at, Len(chain) + 1 when it runs off the chain.
RECURSIVE dict_walk(_, _, _, _)
dict_walk(chain, key, hash, n) ==
    IF n > Len(chain) THEN n
    ELSE IF chain[n].hash # hash /\ chain[n].key # key
         THEN dict_walk(chain, key, hash, n + 1)
         ELSE n

\* the items of the buckets b, b+1, ... in the order resize visits them
RECURSIVE DictItems(_, _)
DictItems(dict, b) ==
    IF b >= dict.capacity THEN <<>> ELSE dict.bucket[b] \o DictItems(dict, b + 1)

\* resize places the items n, n+1, ... of `items`; acc = [bucket, abort]
RECURSIVE x__dict_resize_loop(_, _, _, _)
x__dict_resize_loop(items, _capacity, n, acc) ==
    IF n > Len(items) THEN acc
    ELSE LET item == items[n]
             b == item.hash % _capacity
             at == dict_walk(acc.bucket[b], item.key, item.hash, 1)
         IN IF at > Len(acc.bucket[b])
            THEN x__dict_resize_loop(items, _capacity, n + 1,
                     [acc EXCEPT !.bucket[b] = Append(@, item)])
            ELSE [acc EXCEPT !.abort = TRUE]

\* abort: assert(0) in the branch "same key: cannot occur"
x__dict_resize_buckets(dict) ==
    LET _capacity == DivLoad(dict.capacity, dict.load_factor) + 1
        acc == x__dict_resize_loop(DictItems(dict, 0), _capacity, 1,
                   [bucket |-> [b \in 0..(_capacity - 1) |-> <<>>], abort |-> FALSE])
    IN [d |-> [dict EXCEPT !.bucket = acc.bucket, !.capacity = _capacity],
        abort |-> acc.abort]

x__dict_item_create(dict, b, key, data, hash, heap) ==
    [key |-> key,
     data |-> IF data # NullPtr /\ dict.data_copy # "null"
              THEN AllocBuf(Fresh(heap, dict.capacity, b), data.val)
              ELSE data,
     hash |-> hash]

\* Result of an insert: the container, the returned pointer and abort = the
\* call ends in a failed assert.
dict_insert(dict, key, data, heap) ==
    LET d1 == IF dict.bucket = NoItems THEN x__dict_create_buckets(dict) ELSE dict
        grow == OverLoad(d1.size + 1, d1.capacity, d1.load_factor)
        r == IF grow THEN x__dict_resize_buckets(d1) ELSE [d |-> d1, abort |-> FALSE]
        d2 == r.d
        hash == DictCallHash(d2.key_hash, key)
        b == hash % d2.capacity
        at == dict_walk(d2.bucket[b], key, hash, 1)
    IN IF r.abort THEN [d |-> dict, ret |-> NullPtr, abort |-> TRUE]
       ELSE IF at > Len(d2.bucket[b])
       THEN [d |-> [d2 EXCEPT !.bucket[b] =
                                  Append(@, x__dict_item_create(d2, b, key, data, hash, heap)),
                              !.size = @ + 1],
             ret |-> NullPtr, abort |-> FALSE]
       ELSE [d |-> [d2 EXCEPT !.bucket[b][at].data = data],
             ret |-> d2.bucket[b][at].data, abort |-> FALSE]

\* the chain without its item number n: the next item moves up into the head,
\* or the head is cleared, or the chained item is unlinked
DictUnlink(chain, n) == [m \in 1..(Len(chain) - 1) |-> IF m < n THEN chain[m] ELSE chain[m + 1]]

dict_remove(dict, key) ==
    LET hash == DictCallHash(dict.key_hash, key)
        b == hash % dict.capacity
        at == dict_walk(dict.bucket[b], key, hash, 1)
    IN IF at > Len(dict.bucket[b]) THEN [d |-> dict, ret |-> NullPtr]
       ELSE [d |-> [dict EXCEPT !.bucket[b] = DictUnlink(@, at), !.size = @ - 1],
             ret |-> dict.bucket[b][at].data]

\* the item find returns, DictItemZero for the null pointer
dict_find(dict, key) ==
    LET hash == DictCallHash(dict.key_hash, key)
        b == hash % dict.capacity
        at == dict_walk(dict.bucket[b], key, hash, 1)
    IN IF at > Len(dict.bucket[b]) THEN DictItemZero ELSE dict.bucket[b][at]

\* every item of the dict
DictEntries(dict) ==
    IF dict.bucket = NoItems THEN {} ELSE SeqRange(DictItems(dict, 0))
DictPtrs(dict) == {it.data : it \in DictEntries(dict)} \ {NullPtr}

\* the for loop of copy over the source items n, n+1, ... in bucket and chain
\* order; acc = [d, abort], used = the addresses in use when copy is called
RECURSIVE dict_copy_loop(_, _, _, _)
dict_copy_loop(items, n, acc, used) ==
    IF n > Len(items) \/ acc.abort THEN acc
    ELSE LET heap == [used |-> used \cup {p.id : p \in {q \in DictPtrs(acc.d) : q.own = "alloc"}},
                      by |-> "copy"]
             r == dict_insert(acc.d, items[n].key, items[n].data, heap)
         IN dict_copy_loop(items, n + 1, [d |-> r.d, abort |-> r.abort], used)

dict_copy(dict, used) ==
    dict_copy_loop(DictItems(dict, 0), 1,
                   [d |-> dict_create(dict.capacity, dict.load_factor, dict.key_hash,
                                      dict.data_size, dict.data_copy, dict.data_free),
                    abort |-> FALSE],
                   used)

\* the pointers clear hands to data_free, in bucket and chain order
DictFreeList(dict) ==
    IF dict.bucket = NoItems \/ dict.data_free = "null" THEN <<>>
    ELSE LET items == DictItems(dict, 0) IN [n \in 1..Len(items) |-> items[n].data]

\* clear frees the items and the bucket array and sets bucket to null; size
\* and capacity are left as they are
dict_clear(dict) ==
    IF dict.bucket = NoItems THEN dict ELSE [dict EXCEPT !.bucket = NoItems]

\* (Dict){0}: the value of `copy` before dict_copy is called
DictZero ==
    [size |-> 0, capacity |-> 0, load_factor |-> <<0, 1>>, bucket |-> NoItems,
     key_hash |-> "null", data_size |-> 0, data_copy |-> "null", data_free |-> "null"]

DictUsed == {p.id : p \in {q \in DictPtrs(src) \cup DictPtrs(copy) \cup freed : q.own = "alloc"}}
DictHeap(o) == [used |-> DictUsed, by |-> o]

DictInit ==
    /\ kind = "dict"
    /\ \E capacity \in 0..MaxDictHint, lf \in LoadFactors, hf \in DictHashFns, cb \in Configs :
          src = dict_create(capacity, lf, hf, 4, cb[1], cb[2])
    /\ copy = DictZero
    /\ has_copy = FALSE
    /\ freed = {}
    /\ status = "running"
    /\ post = 0
    /\ ghost = GhostZero

\* insert reads the block d of its caller when it makes a new entry with
\* data_copy (part_000 x__dict_item_create): undefined if d was freed
DictInsert(o, k, d) ==
    /\ Callable(o)
    /\ LET r == dict_insert(Obj(o), k, d, DictHeap(o)) IN
       IF r.abort THEN Stop("aborted")
       ELSE IF d \in freed /\ Obj(o).data_copy # "null" /\ r.d.size # Obj(o).size
       THEN Stop("undefined")
       ELSE /\ r.d.capacity <= MaxDictCapacity
            /\ SetObj(o, r.d)
            /\ UNCHANGED <<kind, has_copy, freed, status, ghost>>

\* remove and find take &bucket[hash % capacity] without a test for a null
\* bucket array, before the first insert and after clear: undefined
\* behaviour.  With capacity 0 the remainder is a division by zero; with
\* remainder 0 the address is the null pointer itself, the loop test item &&
\* ... fails and the call may return the null pointer; any other address is
\* read.
DictNullBucket(dict, k) ==
    IF dict.capacity = 0 THEN {"undefined"}
    ELSE IF DictCallHash(dict.key_hash, k) % dict.capacity = 0
    THEN {"undefined", "returns"}
    ELSE {"undefined"}

DictRemove(o, k) ==
    /\ Callable(o)
    /\ IF Obj(o).bucket = NoItems
       THEN \E how \in DictNullBucket(Obj(o), k) :
               IF how = "undefined" THEN Stop("undefined")
               ELSE SetObj(o, Obj(o)) /\ UNCHANGED <<kind, has_copy, freed, status, ghost>>
       ELSE /\ SetObj(o, dict_remove(Obj(o), k).d)
            /\ UNCHANGED <<kind, has_copy, freed, status, ghost>>

DictFind(o, k) ==
    /\ Callable(o)
    /\ IF Obj(o).bucket = NoItems
       THEN \E how \in DictNullBucket(Obj(o), k) :
               IF how = "undefined" THEN Stop("undefined") ELSE UNCHANGED vars
       ELSE UNCHANGED vars

\* clear hands a block to data_free that was freed before, or one block
\* twice (two items hold it): undefined behaviour
DictClearUndefined(dict) ==
    LET fl == DictFreeList(dict)
    IN \/ \E n \in 1..Len(fl) : fl[n] \in freed
       \/ \E m, n \in 1..Len(fl) : m # n /\ fl[m] = fl[n] /\ fl[m] # NullPtr

DictClear(o) ==
    /\ Callable(o)
    /\ IF DictClearUndefined(Obj(o)) THEN Stop("undefined")
       ELSE /\ SetObj(o, dict_clear(Obj(o)))
            /\ freed' = freed \cup (SeqRange(DictFreeList(Obj(o))) \ {NullPtr})
            /\ UNCHANGED <<kind, has_copy, status, ghost>>

\* copy walks bucket .. bucket + capacity without a test for a null bucket
\* array, and with data_copy reads every stored block: undefined behaviour
\* on a null array of capacity > 0 and on a stored block that was freed
DictCopy ==
    /\ status = "running"
    /\ ~has_copy
    /\ IF src.bucket = NoItems /\ src.capacity > 0 THEN Stop("undefined")
       ELSE IF src.data_copy # "null" /\ \E p \in DictPtrs(src) : p \in freed
       THEN Stop("undefined")
       ELSE LET r == dict_copy(src, DictUsed) IN
            IF r.abort THEN Stop("aborted")
            ELSE /\ r.d.capacity <= MaxDictCapacity
                 /\ copy' = r.d
                 /\ has_copy' = TRUE
                 /\ UNCHANGED <<kind, src, freed, status, post, ghost>>

DictNext ==
    \/ \E o \in Objs, k \in Keys, v \in Vals : DictInsert(o, k, CallerBuf(v))
    \/ \E o \in Objs, k \in Keys : DictRemove(o, k)
    \/ \E o \in Objs, k \in Keys : DictFind(o, k)
    \/ \E o \in Objs : DictClear(o)
    \/ DictCopy

SpecDict == DictInit /\ [][DictNext]_vars

DictKeys(dict) == {it.key : it \in DictEntries(dict)}

\* C22: insert, find and remove of the Dict resolve a key only to an entry
\* whose stored key equals it: find and remove of a key that is not stored
\* yield the null pointer and change nothing, find of a stored key yields
\* its entry, and the insert of a key that is not stored, also one of the
\* same bucket or of the same full hash as a stored key, adds an entry of
\* its own, leaves the others as they are and takes size up by one.
DictKeyIdentity ==
    /\ [](src.bucket # NoItems =>
             \A k \in Keys :
                 /\ dict_find(src, k).key \in {NULL, k}
                 /\ k \in DictKeys(src) => dict_find(src, k).key = k
                 /\ k \notin DictKeys(src) => dict_remove(src, k) = [d |-> src, ret |-> NullPtr])
    /\ [][\A k \in Keys, v \in Vals :
             (DictInsert("src", k, CallerBuf(v)) /\ status' = "running" /\ k \notin DictKeys(src)) =>
                 /\ src'.size = src.size + 1
                 /\ DictEntries(src) \subseteq DictEntries(src')
                 /\ \E it \in DictEntries(src') : it.key = k /\ it.data.val = v]_vars

====
